---------------------------- MODULE Spec2Model ----------------------------
(***************************************************************************)
(* A model of ocsf-json-schema: OcsfJsonSchema (schema.py) compiles the    *)
(* classes and objects of an OCSF catalog into JSON Schema documents, and  *)
(* OcsfJsonSchemaEmbedded (embedded.py) embeds the objects a document      *)
(* refers to under its $defs.                                              *)
(*                                                                         *)
(* A Python str is a sequence of one-character strings, so that lower(),   *)
(* split(), strip(), join(), sorted() and the URL parsing are computed as  *)
(* Python computes them.  A dict is a function from keys to values; None   *)
(* is the value None below.                                                *)
(***************************************************************************)
EXTENDS Integers, Sequences, FiniteSets, TLC

\* ------------------------------------------------------------------------
\* Characters and the str methods the code uses

\* The characters of the model's strings, in code point order.
Ascii ==
  << "#", "$", "&", ",", "-", ".", "/", "0", "1", "2", "3", "4", "5", "6",
     "7", "8", "9", ":", "=", "?", "A", "B", "C", "D", "E", "F", "G", "H",
     "I", "J", "K", "L", "M", "N", "O", "P", "Q", "R", "S", "T", "U", "V",
     "W", "X", "Y", "Z", "_", "a", "b", "c", "d", "e", "f", "g", "h", "i",
     "j", "k", "l", "m", "n", "o", "p", "q", "r", "s", "t", "u", "v", "w",
     "x", "y", "z" >>

\* Their code points, in the same order.
CodePoints ==
  << 35, 36, 38, 44, 45, 46, 47, 48, 49, 50, 51, 52, 53, 54,
     55, 56, 57, 58, 61, 63, 65, 66, 67, 68, 69, 70, 71, 72,
     73, 74, 75, 76, 77, 78, 79, 80, 81, 82, 83, 84, 85, 86,
     87, 88, 89, 90, 95, 97, 98, 99, 100, 101, 102, 103, 104, 105,
     106, 107, 108, 109, 110, 111, 112, 113, 114, 115, 116, 117, 118, 119,
     120, 121, 122 >>

Chars == {Ascii[i] : i \in 1..Len(Ascii)}

\* Body(v) for the value v of e: e is evaluated once, as a Python expression
\* bound to a local variable is.
Let(e, Body(_)) == CHOOSE y \in {Body(x) : x \in {e}} : TRUE

\* ord(c) and chr(n)
ord == [c \in Chars |-> CodePoints[CHOOSE i \in 1..Len(Ascii) : Ascii[i] = c]]

chr(n) == Ascii[CHOOSE i \in 1..Len(Ascii) : CodePoints[i] = n]

\* str.lower() on one character: A-Z map to a-z, all others to themselves.
lower_char == [c \in Chars |-> IF ord[c] >= 65 /\ ord[c] <= 90 THEN chr(ord[c] + 32) ELSE c]

\* str.lower()
lower(s) == Let(s, LAMBDA v : [i \in 1..Len(v) |-> lower_char[v[i]]])

\* a < b on str: lexicographic by code point, a proper prefix being smaller.
RECURSIVE str_lt(_, _)
str_lt(a, b) ==
  IF b = <<>> THEN FALSE
  ELSE IF a = <<>> THEN TRUE
  ELSE IF Head(a) = Head(b) THEN str_lt(Tail(a), Tail(b))
  ELSE ord[Head(a)] < ord[Head(b)]

\* The index of the first occurrence of one of the characters cs in s, or 0.
find_first(s, cs) ==
  IF \E i \in 1..Len(s) : s[i] \in cs
  THEN CHOOSE i \in 1..Len(s) : s[i] \in cs /\ \A j \in 1..(i - 1) : s[j] \notin cs
  ELSE 0

\* s.partition(c) for a set of characters cs: s around the first occurrence
\* of one of them; the whole of s is the head when there is none.
partition(s, cs) ==
  Let(s, LAMBDA v :
    Let(find_first(v, cs), LAMBDA i :
      IF i = 0
      THEN [head |-> v, found |-> FALSE, tail |-> <<>>]
      ELSE [head |-> SubSeq(v, 1, i - 1), found |-> TRUE, tail |-> SubSeq(v, i + 1, Len(v))]))

\* s.split(sep) for a one-character separator: the pieces between the
\* separators, empty pieces kept; "".split(sep) is [""].
RECURSIVE split(_, _)
split(s, sep) ==
  Let(partition(s, {sep}), LAMBDA p :
    IF p.found THEN <<p.head>> \o split(p.tail, sep) ELSE <<p.head>>)

\* s.strip(c): the leading and trailing occurrences of c removed.
RECURSIVE strip(_, _)
strip(s, c) ==
  Let(s, LAMBDA v :
    IF v = <<>> THEN v
    ELSE IF Head(v) = c THEN strip(Tail(v), c)
    ELSE IF v[Len(v)] = c THEN strip(SubSeq(v, 1, Len(v) - 1), c)
    ELSE v)

\* sep.join(parts)
RECURSIVE join(_, _)
join(sep, parts) ==
  Let(parts, LAMBDA ps :
    IF ps = <<>> THEN <<>>
    ELSE IF Len(ps) = 1 THEN ps[1]
    ELSE ps[1] \o sep \o join(sep, Tail(ps)))

\* parts[n:] of a list, n counted from 0 as in Python.
slice_from(parts, n) == SubSeq(parts, n + 1, Len(parts))

\* Whether s starts with the string p.
startswith(s, p) == Len(s) >= Len(p) /\ SubSeq(s, 1, Len(p)) = p

Range(f) == {f[i] : i \in DOMAIN f}

\* ------------------------------------------------------------------------
\* urllib.parse as the code uses it

\* The path, query and fragment of what follows the netloc: the fragment
\* follows the first "#", the query the first "?" before it.
url_path_parts(scheme, netloc, rest) ==
  Let(partition(rest, {"#"}), LAMBDA f :
    Let(partition(f.head, {"?"}), LAMBDA q :
      [ scheme   |-> scheme,
        netloc   |-> netloc,
        path     |-> q.head,
        query    |-> q.tail,
        fragment |-> f.tail ]))

\* The netloc follows "//" and ends before the first of "/", "?", "#".
url_netloc_parts(scheme, rest) ==
  Let(rest, LAMBDA r :
    IF startswith(r, <<"/", "/">>)
    THEN Let(partition(SubSeq(r, 3, Len(r)), {"/", "?", "#"}).head, LAMBDA netloc :
           url_path_parts(scheme, netloc, SubSeq(r, 3 + Len(netloc), Len(r))))
    ELSE url_path_parts(scheme, <<>>, r))

\* urllib.parse.scheme_chars
scheme_chars ==
  { "a", "b", "c", "d", "e", "f", "g", "h", "i", "j", "k", "l", "m", "n", "o",
    "p", "q", "r", "s", "t", "u", "v", "w", "x", "y", "z",
    "A", "B", "C", "D", "E", "F", "G", "H", "I", "J", "K", "L", "M", "N", "O",
    "P", "Q", "R", "S", "T", "U", "V", "W", "X", "Y", "Z",
    "0", "1", "2", "3", "4", "5", "6", "7", "8", "9", "+", "-", "." }

\* c.isascii() and c.isalpha()
is_ascii_alpha(c) == (ord[c] >= 65 /\ ord[c] <= 90) \/ (ord[c] >= 97 /\ ord[c] <= 122)

\* urlsplit takes url[:i] as the scheme, i the index of the first ":", when
\* i > 0, url[0] is an ASCII letter and url[:i] holds scheme_chars only.
has_scheme(url, i) ==
  /\ i > 1
  /\ is_ascii_alpha(url[1])
  /\ \A j \in 1..(i - 1) : url[j] \in scheme_chars

\* urlparse(url): scheme://netloc/path?query#fragment.  The scheme is lower
\* cased; without a scheme the whole of url is read for the rest.
urlparse(url) ==
  Let(url, LAMBDA u :
    Let(find_first(u, {":"}), LAMBDA i :
      IF has_scheme(u, i)
      THEN url_netloc_parts(lower(SubSeq(u, 1, i - 1)), SubSeq(u, i + 1, Len(u)))
      ELSE url_netloc_parts(<<>>, u)))

\* The text before and after the first "=" of a query field.
field_key(f) == partition(f, {"="}).head

field_value(f) == partition(f, {"="}).tail

\* The value of the first of the fields that is named name and not blank,
\* "" when there is none.
first_value(fields, name) ==
  Let(fields, LAMBDA fs :
    Let({i \in 1..Len(fs) : field_key(fs[i]) = name /\ field_value(fs[i]) # <<>>}, LAMBDA named :
      IF named # {}
      THEN field_value(fs[CHOOSE i \in named : \A j \in named : i <= j])
      ELSE <<>>))

\* parse_qs(query).get(name, [""])[0]: the fields are separated by "&", and
\* parse_qs drops those with a blank value.  (The alphabet has no "%" or "+":
\* nothing to decode.)
query_get(query, name) == first_value(split(query, "&"), name)

\* ------------------------------------------------------------------------
\* Values

\* Python's None: None where the other values are modelled as TLA+ strings
\* (a caption, a JSON type), NoneStr where they are str, which no str equals.
None == "None"

NoneStr == <<"None">>

\* A call returns a value or raises an exception; arg is what the message names.
Ok(v) == [ok |-> TRUE, value |-> v]

Raise(exc, msg, arg) == [ok |-> FALSE, exception |-> exc, message |-> msg, arg |-> arg]

\* d.get(k, default)
dict_get(d, k, default) == IF k \in DOMAIN d THEN d[k] ELSE default

\* The dict d after d[k] = v.
dict_set(d, k, v) == (k :> v) @@ d

\* The dict d without the keys ks.
dict_without(d, ks) == [k \in (DOMAIN d) \ ks |-> d[k]]

\* The empty dict.
EmptyDict == <<>>

\* ------------------------------------------------------------------------
\* OcsfJsonSchema: class constants

OCSF_SCHEMA_PREFIX == <<"h","t","t","p","s",":","/","/","s","c","h","e","m","a",".","o","c","s","f",".","i","o">>

JSON_SCHEMA_VERSION == "https://json-schema.org/draft/2020-12/schema"

OCSF_SCHEMA_TYPE_MAPPING ==
  [ boolean_t   |-> "boolean",
    float_t     |-> "number",
    integer_t   |-> "integer",
    long_t      |-> "integer",
    string_t    |-> "string",
    json_t      |-> None,
    object_t    |-> None,
    datetime_t  |-> "string",
    ip_t        |-> "string",
    mac_t       |-> "string",
    port_t      |-> "integer",
    timestamp_t |-> "integer",
    url_t       |-> "string",
    email_t     |-> "string",
    fqdn_t      |-> "string" ]

\* String literals of schema.py and embedded.py.
s_schema == <<"s","c","h","e","m","a">>

s_classes == <<"c","l","a","s","s","e","s">>

s_objects == <<"o","b","j","e","c","t","s">>

s_profiles == <<"p","r","o","f","i","l","e","s">>

s_profiles_query == <<"?","p","r","o","f","i","l","e","s","=">>

s_defs_prefix == <<"#","/","$","d","e","f","s","/">>

MSG_FORMAT == "Invalid schema URI. Expected format is: https://schema.ocsf.io/schema/<version>/<classes|objects>/<name>?profiles=<profiles>"

MSG_VERSION == "Invalid schema URI. Expected schema version"

MSG_KIND == "Invalid schema URI. Expects lookup for classes or objects."

MSG_CLASS == "Class is not defined"

MSG_OBJECT == "Object is not defined"

MSG_OBJECT_TYPE == "Object type is not defined"

MSG_UID == "No class found for uid"

MSG_CONSTRAINTS == "Not constraints implemented yet"

MSG_INT == "invalid literal for int() with base 10"

\* ------------------------------------------------------------------------
\* OcsfJsonSchema._generate_attribute

\* int(k) of an enum key: an optional leading "-", then decimal digits, with
\* single "_" allowed between two digits.  (The alphabet has no "+" and no
\* blank.)
Digits == <<"0", "1", "2", "3", "4", "5", "6", "7", "8", "9">>

\* k without its sign.
unsigned(k) == IF k # <<>> /\ Head(k) = "-" THEN Tail(k) ELSE k

is_int_literal(k) ==
  Let(unsigned(k), LAMBDA d :
    /\ d # <<>>
    /\ \A i \in 1..Len(d) :
         \/ d[i] \in Range(Digits)
         \/ /\ d[i] = "_"
            /\ i > 1 /\ i < Len(d)
            /\ d[i - 1] \in Range(Digits)
            /\ d[i + 1] \in Range(Digits))

\* The value of a literal without sign, its "_" passed over.
RECURSIVE digits_value(_)
digits_value(d) ==
  IF d = <<>> THEN 0
  ELSE IF d[Len(d)] = "_" THEN digits_value(SubSeq(d, 1, Len(d) - 1))
  ELSE 10 * digits_value(SubSeq(d, 1, Len(d) - 1))
       + (CHOOSE v \in 0..9 : Digits[v + 1] = d[Len(d)])

int(k) == IF Head(k) = "-" THEN 0 - digits_value(Tail(k)) ELSE digits_value(k)

INT_ENUM_TYPES == {"integer_t", "long_t", "port_t", "timestamp_t"}

\* The format, pattern and bounds the match statement adds for attr_type.
type_defaults(attr_type) ==
  CASE attr_type = "datetime_t"  -> [format |-> "date-time"]
    [] attr_type = "ip_t"        -> [format |-> "ipv4"]
    [] attr_type = "mac_t"       -> [pattern |-> "^([0-9A-Fa-f]{2}[:-]){5}([0-9A-Fa-f]{2})$"]
    [] attr_type = "port_t"      -> [minimum |-> 0, maximum |-> 65535]
    [] attr_type = "timestamp_t" -> [minimum |-> 0]
    [] attr_type = "url_t"       -> [format |-> "uri"]
    [] attr_type = "email_t"     -> [format |-> "email"]
    [] attr_type = "fqdn_t"      -> [format |-> "hostname"]
    [] OTHER                     -> EmptyDict

\* The const or enum keys: the enum mapping's keys in insertion order (the
\* model keeps an enum as the list of its keys), cast to int for the
\* integer types.
enum_keys(attribute, attr_type) ==
  IF "enum" \notin DOMAIN attribute THEN EmptyDict
  ELSE LET keys == attribute["enum"]
           enum_values == [i \in 1..Len(keys) |->
                             IF attr_type \in INT_ENUM_TYPES THEN int(keys[i]) ELSE keys[i]]
       IN  IF Len(enum_values) = 1 THEN [const |-> enum_values[1]]
           ELSE [enum |-> enum_values]

\* ref_format % obj_type: the template is the text before and after its %s.
format_ref(ref_format, obj_type) == ref_format.before \o obj_type \o ref_format.after

\* "items": item_schema or {"type": json_type} if json_type else {}
\* which Python reads as (item_schema or {"type": json_type}) if json_type else {}.
array_items(item_schema, json_type) ==
  IF json_type # None
  THEN (IF DOMAIN item_schema # {} THEN item_schema ELSE [type |-> json_type])
  ELSE EmptyDict

\* int(k) fails for a key of the enum of an integer type (line 207).
enum_raises(attribute) ==
  /\ "enum" \in DOMAIN attribute
  /\ dict_get(attribute, "type", None) \in INT_ENUM_TYPES
  /\ \E i \in 1..Len(attribute["enum"]) : ~is_int_literal(attribute["enum"][i])

\* Lines 215-218: attribute.get("object_type", None) is None for an object_t
\* attribute, its object_type missing or null.
object_type_raises(attribute) ==
  /\ dict_get(attribute, "type", None) = "object_t"
  /\ dict_get(attribute, "object_type", NoneStr) = NoneStr

attribute_raises(attribute) == enum_raises(attribute) \/ object_type_raises(attribute)

\* The exception _generate_attribute raises when attribute_raises: the enum
\* is read (line 207) before the object type (line 217).
attribute_error(attribute) ==
  IF enum_raises(attribute)
  THEN Raise("ValueError", MSG_INT, <<>>)
  ELSE Raise("ValueError", MSG_OBJECT_TYPE, <<>>)

\* The fragment _generate_attribute returns when it raises nothing.
_generate_attribute(attribute, ref_format) ==
  LET caption   == dict_get(attribute, "caption", None)
      attr_type == dict_get(attribute, "type", None)
      json_type == dict_get(OCSF_SCHEMA_TYPE_MAPPING, attr_type, None)
      typed     == IF json_type # None
                   THEN [title |-> caption, type |-> json_type]
                   ELSE [title |-> caption]
      withType  == type_defaults(attr_type) @@ typed
      withEnum  == enum_keys(attribute, attr_type) @@ withType
      withRef   == IF attr_type = "object_t"
                   THEN dict_set(withEnum, "$ref", format_ref(ref_format, attribute["object_type"]))
                   ELSE withEnum
      wrapped   == IF dict_get(attribute, "is_array", FALSE)
                   THEN [ title |-> caption,
                          type  |-> "array",
                          items |-> array_items(dict_without(withRef, {"title", "type"}), json_type) ]
                   ELSE withRef
  IN  IF "@deprecated" \in DOMAIN attribute
      THEN dict_set(wrapped, "deprecated", TRUE)
      ELSE wrapped

\* ------------------------------------------------------------------------
\* OcsfJsonSchema._extract_attributes

\* The filter of line 167 were it to compare nothing: every attribute passes.
attribute_included_always(attr_data, profiles) == TRUE

\* The attribute passes the profile filter: it has no profile, a null
\* profile, or a profile that is in the list profiles.
attribute_included(attr_data, profiles) ==
  ~ ( /\ "profile" \in DOMAIN attr_data
      /\ attr_data["profile"] # NoneStr
      /\ attr_data["profile"] \notin Range(profiles) )

\* attributes.items() of data.get("attributes", {}): the attributes in the
\* insertion order of their dict, which the entry keeps as attribute_order.
attributes_items(data) ==
  IF "attributes" \in DOMAIN data
  THEN [i \in 1..Len(data["attribute_order"]) |->
          [ name |-> data["attribute_order"][i],
            data |-> data["attributes"][data["attribute_order"][i]] ]]
  ELSE <<>>

\* The items the loop does not skip, by their place in the dict.
included_items(attributes, profiles) ==
  {i \in 1..Len(attributes) : attribute_included(attributes[i].data, profiles)}

\* Line 171 were the requirement not read: every attribute counts as required.
is_required_always(attr_data) == TRUE

\* Line 171: attr_data.get("requirement") == "required"
is_required(attr_data) == dict_get(attr_data, "requirement", None) = "required"

\* (properties, required), or the exception of the first included attribute,
\* in the order of the dict, whose fragment cannot be generated.  attributes
\* is the dict as the list of its items; required is the set of names the
\* sorted() of _generate_schema orders.
_extract_attributes(attributes, profiles, ref_format) ==
  Let(attributes, LAMBDA items :
    Let(included_items(items, profiles), LAMBDA kept :
      LET failed == {i \in kept : attribute_raises(items[i].data)}
          item(n) == items[CHOOSE i \in kept : items[i].name = n]
      IN  IF failed # {}
          THEN attribute_error(items[CHOOSE i \in failed : \A j \in failed : i <= j].data)
          ELSE Ok([ properties |-> [n \in {items[i].name : i \in kept} |->
                                      _generate_attribute(item(n).data, ref_format)],
                    required   |-> {items[i].name : i \in {j \in kept : is_required(items[j].data)}} ])))

\* ------------------------------------------------------------------------
\* OcsfJsonSchema._generate_schema

\* sorted(S) of a set of str.
RECURSIVE sorted(_)
sorted(S) ==
  Let(S, LAMBDA T :
    IF T = {} THEN <<>>
    ELSE Let(CHOOSE x \in T : \A y \in T : ~str_lt(y, x), LAMBDA m :
           <<m>> \o sorted(T \ {m})))

\* sorted(s.lower() for s in S) of a set of str: every member of S gives one
\* item of the list, also when two members have the same lower case form.
RECURSIVE sorted_lower(_)
sorted_lower(S) ==
  Let(S, LAMBDA T :
    IF T = {} THEN <<>>
    ELSE Let(CHOOSE x \in T : \A y \in T : ~str_lt(lower(y), lower(x)), LAMBDA m :
           <<lower(m)>> \o sorted_lower(T \ {m})))

\* profiles after lines 114-118: list(set(profiles)), then lowercased and
\* sorted; an empty list is left as it is.
normalized_profiles(profiles) ==
  IF Len(profiles) > 0 THEN sorted_lower(Range(profiles)) ELSE profiles

profile_query_str(profiles) ==
  IF Len(profiles) > 0
  THEN s_profiles_query \o join(<<",">>, normalized_profiles(profiles))
  ELSE <<>>

\* f"{prefix}/schema/{version}/objects/%s{profile_query_str}"
ref_format_of(self, query) ==
  [ before |-> OCSF_SCHEMA_PREFIX \o <<"/">> \o s_schema \o <<"/">> \o self.version
               \o <<"/">> \o s_objects \o <<"/">>,
    after  |-> query ]

\* The clauses of lines 147 and 150 were all fields put into one clause.
required_clauses_joined(fields) == << [required |-> fields] >>

\* [{"required": [field]} for field in fields]
required_clauses(fields) == [i \in 1..Len(fields) |-> [required |-> <<fields[i]>>]]

\* The anyOf and oneOf keys of the constraints (lines 144-151).
constraint_keys(data) ==
  LET constraints == dict_get(data, "constraints", EmptyDict)
      at_least_one == dict_get(constraints, "at_least_one", <<>>)
      just_one     == dict_get(constraints, "just_one", <<>>)
  IN  (IF Len(at_least_one) > 0 THEN [anyOf |-> required_clauses(at_least_one)] ELSE EmptyDict)
      @@ (IF Len(just_one) > 0 THEN [oneOf |-> required_clauses(just_one)] ELSE EmptyDict)

\* Lines 153-154: constraints that hold neither just_one nor at_least_one.
constraints_unsupported(data) ==
  LET constraints == dict_get(data, "constraints", EmptyDict)
  IN  /\ DOMAIN constraints # {}
      /\ ~ ("just_one" \in DOMAIN constraints \/ "at_least_one" \in DOMAIN constraints)

\* Line 138 were additionalProperties never allowed.
additional_properties_never(properties) == FALSE

\* Line 138: False if properties else True
additional_properties(properties) == DOMAIN properties = {}

\* The document of lines 125-156, given what _extract_attributes returned.
document_of(schema_id, query, data, extracted) ==
  LET base      == [ title |-> dict_get(data, "caption", None), type |-> "object" ]
                   @@ ("$schema" :> JSON_SCHEMA_VERSION) @@ ("$id" :> schema_id \o query)
      withProps == [ properties           |-> extracted.properties,
                     additionalProperties |-> additional_properties(extracted.properties) ] @@ base
      withReq   == IF extracted.required # {}
                   THEN [required |-> sorted(extracted.required)] @@ withProps
                   ELSE withProps
  IN  constraint_keys(data) @@ withReq

_generate_schema(self, schema_id, data, profiles) ==
  Let(normalized_profiles(profiles), LAMBDA filtering :
    Let(profile_query_str(profiles), LAMBDA query :
      Let(_extract_attributes(attributes_items(data), filtering, ref_format_of(self, query)),
          LAMBDA extracted :
            IF ~extracted.ok THEN extracted
            ELSE IF constraints_unsupported(data)
            THEN Raise("NotImplementedError", MSG_CONSTRAINTS, <<>>)
            ELSE Ok(document_of(schema_id, query, data, extracted.value)))))

\* ------------------------------------------------------------------------
\* OcsfJsonSchema: the public methods

get_class_schema(self, class_name, profiles) ==
  LET name    == lower(class_name)
      classes == dict_get(self.schema, "classes", EmptyDict)
  IN  IF name \notin DOMAIN classes
      THEN Raise("ValueError", MSG_CLASS, name)
      ELSE _generate_schema(self,
             OCSF_SCHEMA_PREFIX \o <<"/">> \o s_schema \o <<"/">> \o self.version
               \o <<"/">> \o s_classes \o <<"/">> \o name,
             classes[name], profiles)

get_object_schema(self, object_name, profiles) ==
  LET name    == lower(object_name)
      objects == dict_get(self.schema, "objects", EmptyDict)
  IN  IF name \notin DOMAIN objects
      THEN Raise("ValueError", MSG_OBJECT, name)
      ELSE _generate_schema(self,
             OCSF_SCHEMA_PREFIX \o <<"/">> \o s_schema \o <<"/">> \o self.version
               \o <<"/">> \o s_objects \o <<"/">> \o name,
             objects[name], profiles)

\* The profiles of a query string (lines 70-72 of schema.py, 94-96 of embedded.py).
query_profiles(query) ==
  Let(query_get(query, s_profiles), LAMBDA profiles :
    IF profiles # <<>> THEN split(profiles, ",") ELSE <<>>)

get_schema_from_uri(self, uri) ==
  Let(urlparse(lower(uri)), LAMBDA parsed_url :
    Let(split(strip(parsed_url.path, "/"), "/"), LAMBDA path_parts :
      LET name     == join(<<"/">>, slice_from(path_parts, 3))
          profiles == query_profiles(parsed_url.query)
      IN  IF Len(path_parts) # 4
          THEN Raise("ValueError", MSG_FORMAT, lower(uri))
          ELSE IF path_parts[2] # self.version
          THEN Raise("ValueError", MSG_VERSION, lower(uri))
          ELSE IF path_parts[3] = s_classes THEN get_class_schema(self, name, profiles)
          ELSE IF path_parts[3] = s_objects THEN get_object_schema(self, name, profiles)
          ELSE Raise("ValueError", MSG_KIND, lower(uri))))

\* ------------------------------------------------------------------------
\* ocsf_json_schema.utility, which embedded.py imports

\* The entity name of a schema URI: what follows the kind segment of its path.
entity_name_from_uri(uri) ==
  join(<<"/">>, slice_from(split(strip(urlparse(uri).path, "/"), "/"), 3))

\* The $defs key of an object name: its "/" separators become "_".
generate_object_name_slug(name) ==
  Let(name, LAMBDA v : [i \in 1..Len(v) |-> IF v[i] = "/" THEN "_" ELSE v[i]])

\* ------------------------------------------------------------------------
\* OcsfJsonSchemaEmbedded

\* f"#/$defs/{object_name_slug}" for the object a $ref URI names.
local_ref(ref) == s_defs_prefix \o generate_object_name_slug(entity_name_from_uri(ref))

\* One property after the loop body of _rewrite_references: its own $ref,
\* or else the $ref of its items, made local.
rewrite_property(attr_data) ==
  IF "$ref" \in DOMAIN attr_data
  THEN dict_set(attr_data, "$ref", local_ref(attr_data["$ref"]))
  ELSE IF "items" \in DOMAIN attr_data /\ "$ref" \in DOMAIN attr_data["items"]
  THEN dict_set(attr_data, "items",
                dict_set(attr_data["items"], "$ref", local_ref(attr_data["items"]["$ref"])))
  ELSE attr_data

\* The object names the loop of _rewrite_references adds to objects_seen.
referenced_objects(properties) ==
  {entity_name_from_uri(properties[n]["$ref"]) :
     n \in {m \in DOMAIN properties : "$ref" \in DOMAIN properties[m]}}
  \cup
  {entity_name_from_uri(properties[n]["items"]["$ref"]) :
     n \in {m \in DOMAIN properties :
              /\ "$ref" \notin DOMAIN properties[m]
              /\ "items" \in DOMAIN properties[m]
              /\ "$ref" \in DOMAIN properties[m]["items"]}}

_rewrite_references(properties) ==
  [ properties   |-> [n \in DOMAIN properties |-> rewrite_property(properties[n])],
    objects_seen |-> referenced_objects(properties) ]

\* _profiles_from_uri were it to ignore the query of the $id.
_profiles_from_uri_none(uri) == <<>>

_profiles_from_uri(uri) == query_profiles(urlparse(uri).query)

\* The test of line 42 were the early return left out.
nothing_to_embed_never(objects_seen) == FALSE

\* Line 42: nothing to embed, the document is returned as it is.
nothing_to_embed(objects_seen) == objects_seen = {}

\* Lines 51-52: the objects the next round of the while loop embeds.
objects_left(objects_seen, objects_added) == objects_seen \ objects_added

\* Lines 54-63: the definition embedded for a compiled object: its $id
\* deleted and its references made local.
embedded_object(obj) ==
  dict_set(dict_without(obj, {"$id"}), "properties",
           _rewrite_references(obj["properties"]).properties)

\* Line 65 were the objects an embedded object refers to not recorded.
seen_after_unchanged(objects_seen, obj) == objects_seen

\* Line 65: objects_seen.update(new_objects)
seen_after(objects_seen, obj) ==
  objects_seen \cup _rewrite_references(obj["properties"]).objects_seen

\* Line 66 were the embedded object not recorded as added.
added_after_unchanged(objects_added, obj_name) == objects_added

\* Line 66: objects_added.add(obj_name)
added_after(objects_added, obj_name) == objects_added \cup {obj_name}

\* ------------------------------------------------------------------------
\* The catalog the instance is constructed with.  The attributes of an entry
\* are a dict, written as a function; attribute_order is the insertion order
\* of its keys, the order the loop of _extract_attributes visits them in.

EventClass ==
  [ caption     |-> "Event",
    name        |-> <<"e","v","e","n","t">>,
    uid         |-> 1,
    attribute_order |-> << <<"t","i","m","e">>, <<"s","r","c">>, <<"n","o","t","e">>, <<"u","s","e","r">>, <<"g","r","o","u","p","s">>, <<"d","e","v">> >>,
    attributes  |->
      (<<"t","i","m","e">>   :> [caption |-> "Time", type |-> "timestamp_t", requirement |-> "required"])
      @@ (<<"s","r","c">>    :> [caption |-> "Source", type |-> "string_t", profile |-> <<"w","e","b">>])
      @@ (<<"n","o","t","e">>   :> [caption |-> "Note", type |-> "string_t", profile |-> NoneStr])
      @@ (<<"u","s","e","r">>   :> [caption |-> "User", type |-> "object_t", object_type |-> <<"u","s","e","r">>,
                         requirement |-> "required"])
      @@ (<<"g","r","o","u","p","s">> :> [caption |-> "Groups", type |-> "object_t", object_type |-> <<"g","r","o","u","p">>,
                         is_array |-> TRUE])
      @@ (<<"d","e","v">>    :> [caption |-> "Device", type |-> "object_t", object_type |-> <<"d","e","v","i","c","e">>,
                         profile |-> <<"h","o","s","t">>]),
    constraints |-> [at_least_one |-> << <<"s","r","c">>, <<"t","i","m","e">> >>] ]

PingClass ==
  [ caption    |-> "Ping",
    name       |-> <<"p","i","n","g">>,
    uid        |-> 2,
    attribute_order |-> << <<"m","s","g">>, <<"p","o","r","t","s">>, <<"c","o","d","e">>, <<"o","l","d">> >>,
    attributes |->
      (<<"m","s","g">>      :> [caption |-> "Message", type |-> "string_t"])
      @@ (<<"p","o","r","t","s">> :> [caption |-> "Ports", type |-> "port_t", is_array |-> TRUE])
      @@ (<<"c","o","d","e">>  :> [caption |-> "Code", type |-> "integer_t", enum |-> << <<"1">>, <<"2">> >>])
      @@ (<<"o","l","d">>   :> (("@deprecated" :> TRUE) @@ [caption |-> "Old", type |-> "mac_t"])) ]

\* A class that refers to an object the catalog does not define.
OrphanClass ==
  [ caption    |-> "Orphan",
    name       |-> <<"o","r","p","h","a","n">>,
    uid        |-> 3,
    attribute_order |-> << <<"g","h","o","s","t">> >>,
    attributes |->
      (<<"g","h","o","s","t">> :> [caption |-> "Ghost", type |-> "object_t", object_type |-> <<"g","h","o","s","t">>]) ]

UserObject ==
  [ caption    |-> "User",
    attribute_order |-> << <<"n","a","m","e">>, <<"o","r","g">>, <<"e","m","a","i","l">> >>,
    attributes |->
      (<<"n","a","m","e">>     :> [caption |-> "Name", type |-> "string_t", requirement |-> "required"])
      @@ (<<"o","r","g">>   :> [caption |-> "Org", type |-> "object_t", object_type |-> <<"o","r","g">>])
      @@ (<<"e","m","a","i","l">> :> [caption |-> "Email", type |-> "email_t", profile |-> <<"w","e","b">>]) ]

\* org and user refer to each other, and org to itself.
OrgObject ==
  [ caption    |-> "Org",
    attribute_order |-> << <<"o","w","n","e","r">>, <<"p","a","r","e","n","t">>, <<"t","a","g">> >>,
    attributes |->
      (<<"o","w","n","e","r">>     :> [caption |-> "Owner", type |-> "object_t", object_type |-> <<"u","s","e","r">>])
      @@ (<<"p","a","r","e","n","t">> :> [caption |-> "Parent", type |-> "object_t", object_type |-> <<"o","r","g">>])
      @@ (<<"t","a","g">>    :> [caption |-> "Tag", type |-> "string_t", profile |-> <<"W","e","b">>]) ]

GroupObject ==
  [ caption    |-> "Group",
    attribute_order |-> << <<"g","i","d">> >>,
    attributes |-> (<<"g","i","d">> :> [caption |-> "Gid", type |-> "integer_t"]) ]

DeviceObject ==
  [ caption    |-> "Device",
    attribute_order |-> << <<"i","p">>, <<"s","l","o","t">>, <<"s","v","c">> >>,
    attributes |->
      (<<"i","p">>     :> [caption |-> "IP", type |-> "ip_t"])
      @@ (<<"s","l","o","t">> :> [caption |-> "Slot", type |-> "object_t", object_type |-> <<"g","a","t","e","d">>])
      @@ (<<"s","v","c">> :> [caption |-> "Service", type |-> "object_t",
                      object_type |-> <<"w","i","n","/","w","i","n","_","s","e","r","v","i","c","e">>, profile |-> <<"w","e","b">>]) ]

WinServiceObject ==
  [ caption    |-> "Windows Service",
    attribute_order |-> << <<"s","i","d">> >>,
    attributes |-> (<<"s","i","d">> :> [caption |-> "Sid", type |-> "string_t"]) ]

EmptyObject == [ caption |-> "Empty", attribute_order |-> <<>>, attributes |-> EmptyDict ]

\* An object with an array of an object the catalog does not define.
RosterObject ==
  [ caption    |-> "Roster",
    attribute_order |-> << <<"m","e","m","b","e","r","s">> >>,
    attributes |->
      (<<"m","e","m","b","e","r","s">> :> [caption |-> "Members", type |-> "object_t", object_type |-> <<"g","h","o","s","t">>,
                        is_array |-> TRUE]) ]

\* An object with both kinds of constraint, and a required attribute that
\* has a profile.
BothObject ==
  [ caption     |-> "Both",
    attribute_order |-> << <<"z","i","p">>, <<"a","r","e","a">>, <<"c","i","t","y">> >>,
    attributes  |->
      (<<"z","i","p">> :> [caption |-> "Zip", type |-> "string_t", requirement |-> "required"])
      @@ (<<"a","r","e","a">> :> [caption |-> "Area", type |-> "string_t", requirement |-> "required",
                       profile |-> <<"w","e","b">>])
      @@ (<<"c","i","t","y">> :> [caption |-> "City", type |-> "string_t", requirement |-> "optional"]),
    constraints |-> [ at_least_one |-> << <<"z","i","p">>, <<"c","i","t","y">> >>,
                      just_one     |-> << <<"c","i","t","y">>, <<"a","r","e","a">> >> ] ]

\* An object whose constraints hold an unknown key next to at_least_one.
MixedObject ==
  [ caption     |-> "Mixed",
    attribute_order |-> << <<"a">> >>,
    attributes  |-> (<<"a">> :> [caption |-> "A", type |-> "string_t"]),
    constraints |-> [ at_least_one |-> << <<"a">> >>, unknown_constraint |-> << <<"a">> >> ] ]

\* An object whose constraints hold an unknown key only.
UnknownObject ==
  [ caption     |-> "Unknown",
    attribute_order |-> << <<"a">> >>,
    attributes  |-> (<<"a">> :> [caption |-> "A", type |-> "string_t"]),
    constraints |-> [ unknown_constraint |-> << <<"a">> >> ] ]

\* An object whose only attribute has a profile and is required, and whose
\* just_one constraint names no field.
GatedObject ==
  [ caption     |-> "Gated",
    attribute_order |-> << <<"k","e","y">> >>,
    attributes  |-> (<<"k","e","y">> :> [caption |-> "Key", type |-> "string_t", requirement |-> "required",
                                 profile |-> <<"h","o","s","t">>]),
    constraints |-> [ just_one |-> <<>> ] ]

\* An object whose attributes have enums of no, one and more keys, and two
\* arrays of strings, one of them with an enum.
EnumObject ==
  [ caption    |-> "Enum",
    attribute_order |-> << <<"n","o","n","e">>, <<"o","n","e">>, <<"n","u","m">>, <<"t","w","o">>, <<"n","e","g">>,
                         <<"t","e","n">>, <<"l","i","s","t">>, <<"t","a","g","s">> >>,
    attributes |->
      (<<"n","o","n","e">> :> [caption |-> "None", type |-> "string_t", enum |-> <<>>])
      @@ (<<"o","n","e">> :> [caption |-> "One", type |-> "string_t", enum |-> << <<"x">> >>])
      @@ (<<"n","u","m">> :> [caption |-> "Num", type |-> "long_t", enum |-> << <<"4","2">> >>])
      @@ (<<"t","w","o">> :> [caption |-> "Two", type |-> "string_t", enum |-> << <<"b">>, <<"a">> >>])
      @@ (<<"n","e","g">> :> [caption |-> "Neg", type |-> "integer_t", enum |-> << <<"1","0">>, <<"-","1">>, <<"2">> >>])
      @@ (<<"t","e","n">> :> [caption |-> "Ten", type |-> "port_t", enum |-> << <<"1","_","0">> >>])
      @@ (<<"l","i","s","t">> :> [caption |-> "List", type |-> "string_t", is_array |-> TRUE])
      @@ (<<"t","a","g","s">> :> [caption |-> "Tags", type |-> "string_t", is_array |-> TRUE,
                     enum |-> << <<"a">>, <<"b">> >>]) ]

\* An object whose attributes have types of the catalog's types table (an
\* alias of string_t, and a string type with max_len), next to a base type.
AliasObject ==
  [ caption    |-> "Alias",
    attribute_order |-> << <<"l","a","b","e","l">>, <<"c","a","p">>, <<"f","l","a","g">> >>,
    attributes |->
      (<<"l","a","b","e","l">> :> [caption |-> "Label", type |-> "custom_scalar_t"])
      @@ (<<"c","a","p">> :> [caption |-> "Cap", type |-> "short_t"])
      @@ (<<"f","l","a","g">> :> [caption |-> "Flag", type |-> "boolean_t"]) ]

\* An object with an attribute whose type is no base type and not in the
\* types table.
InvalidObject ==
  [ caption    |-> "Invalid",
    attribute_order |-> << <<"b","a","d">> >>,
    attributes |-> (<<"b","a","d">> :> [caption |-> "Bad", type |-> "invalid_t"]) ]

\* An object with an attribute whose type sets both max_len and range.
ConflictObject ==
  [ caption    |-> "Conflict",
    attribute_order |-> << <<"s","i","z","e">> >>,
    attributes |-> (<<"s","i","z","e">> :> [caption |-> "Size", type |-> "both_t"]) ]

\* An object with attributes no fragment can be generated for: a null object
\* type under a profile, then an enum key that is no integer, then a missing
\* object type.
BrokenObject ==
  [ caption    |-> "Broken",
    attribute_order |-> << <<"g","a","t","e">>, <<"b","a","d">>, <<"r","e","f">> >>,
    attributes |->
      (<<"r","e","f">> :> [caption |-> "Ref", type |-> "object_t"])
      @@ (<<"b","a","d">> :> [caption |-> "Bad", type |-> "integer_t", enum |-> << <<"1">>, <<"x">>, <<"1","_">> >>])
      @@ (<<"g","a","t","e">> :> [caption |-> "Gate", type |-> "object_t", object_type |-> NoneStr,
                       profile |-> <<"w","e","b">>]) ]

\* The types table of the catalog.
Types ==
  [ custom_scalar_t |-> [caption |-> "Custom", type |-> "string_t"],
    short_t         |-> [caption |-> "Short", type |-> "string_t", max_len |-> 100],
    both_t          |-> [caption |-> "Both", type |-> "string_t", max_len |-> 100,
                         range |-> <<0, 255>>] ]

\* class_order is the insertion order of the classes dict.
Catalog ==
  [ version     |-> <<"1",".","0",".","0">>,
    class_order |-> << <<"e","v","e","n","t">>, <<"p","i","n","g">>, <<"o","r","p","h","a","n">> >>,
    classes     |-> (<<"e","v","e","n","t">> :> EventClass) @@ (<<"p","i","n","g">> :> PingClass)
                    @@ (<<"o","r","p","h","a","n">> :> OrphanClass),
    objects     |-> (<<"u","s","e","r">> :> UserObject) @@ (<<"o","r","g">> :> OrgObject)
                    @@ (<<"g","r","o","u","p">> :> GroupObject) @@ (<<"d","e","v","i","c","e">> :> DeviceObject)
                    @@ (<<"w","i","n","/","w","i","n","_","s","e","r","v","i","c","e">> :> WinServiceObject)
                    @@ (<<"e","m","p","t","y">> :> EmptyObject)
                    @@ (<<"b","o","t","h">> :> BothObject) @@ (<<"m","i","x","e","d">> :> MixedObject)
                    @@ (<<"u","n","k","n","o","w","n">> :> UnknownObject) @@ (<<"g","a","t","e","d">> :> GatedObject)
                    @@ (<<"e","n","u","m">> :> EnumObject) @@ (<<"a","l","i","a","s">> :> AliasObject)
                    @@ (<<"i","n","v","a","l","i","d">> :> InvalidObject)
                    @@ (<<"c","o","n","f","l","i","c","t">> :> ConflictObject)
                    @@ (<<"r","o","s","t","e","r">> :> RosterObject)
                    @@ (<<"b","r","o","k","e","n">> :> BrokenObject),
    types       |-> Types ]

\* The same catalog under a version that has upper case letters.
RcCatalog == [Catalog EXCEPT !.version = <<"1",".","0",".","0","-","R","C">>]

\* A class as the catalogs of the tests have them: without uid and name.
BareClass ==
  [ caption    |-> "Bare",
    attribute_order |-> << <<"m","s","g">> >>,
    attributes |-> (<<"m","s","g">> :> [caption |-> "Message", type |-> "string_t"]) ]

\* A catalog whose second class carries no uid.
NoUidCatalog ==
  [ version     |-> <<"1",".","0",".","0">>,
    class_order |-> << <<"p","i","n","g">>, <<"b","a","r","e">>, <<"o","r","p","h","a","n">> >>,
    classes     |-> (<<"p","i","n","g">> :> PingClass) @@ (<<"b","a","r","e">> :> BareClass) @@ (<<"o","r","p","h","a","n">> :> OrphanClass),
    objects     |-> (<<"e","m","p","t","y">> :> EmptyObject),
    types       |-> EmptyDict ]

Catalogs == {Catalog, RcCatalog, NoUidCatalog}

\* ------------------------------------------------------------------------
\* The calls the model makes

\* The longest profile list of a call.
MaxProfiles == 2

\* The number of times one embedding may compile one object name before
\* the model stops counting.
MaxCompiles == 2

\* The number of runs of the loop of lookup_class_name_from_uid over the
\* classes before the model stops counting.
MaxScans == 2

ProfileNames == { <<"w","e","b">>, <<"W","e","b">>, <<"W","E","B">>, <<"h","o","s","t">> }

ProfileLists == UNION {[1..n -> ProfileNames] : n \in 0..MaxProfiles}

ClassNameInputs == { <<"e","v","e","n","t">>, <<"E","v","e","n","t">>, <<"p","i","n","g">>, <<"o","r","p","h","a","n">>, <<"n","o","p","e">> }

ObjectNameInputs ==
  { <<"u","s","e","r">>, <<"U","s","e","r">>, <<"o","r","g">>, <<"g","r","o","u","p">>, <<"d","e","v","i","c","e">>, <<"w","i","n","/","w","i","n","_","s","e","r","v","i","c","e">>,
    <<"e","m","p","t","y">>, <<"g","h","o","s","t">>,
    <<"b","o","t","h">>, <<"m","i","x","e","d">>, <<"u","n","k","n","o","w","n">>, <<"g","a","t","e","d">>, <<"e","n","u","m">>, <<"a","l","i","a","s">>, <<"i","n","v","a","l","i","d">>,
    <<"c","o","n","f","l","i","c","t">>, <<"r","o","s","t","e","r">>, <<"b","r","o","k","e","n">> }

\* Paths of request URIs, as their segments: the well-formed ones, and the
\* deviations (another marker or version or kind, a missing name, a namespaced
\* name, too few segments).
WellFormedPaths ==
  { << s_schema, <<"1",".","0",".","0">>, kind, name >> :
      kind \in {s_classes, s_objects},
      name \in { <<"e","v","e","n","t">>, <<"E","v","e","n","t">>, <<"p","i","n","g">>, <<"u","s","e","r">>, <<"o","r","g">>, <<"d","e","v","i","c","e">>,
                 <<"e","m","p","t","y">>, <<"n","o","p","e">>, <<"o","r","p","h","a","n">> } }

OtherPaths ==
  { << <<"f","o","o">>, <<"1",".","0",".","0">>, s_classes, <<"e","v","e","n","t">> >>,
    << <<"f","o","o">>, <<"1",".","0",".","0">>, s_objects, <<"e","m","p","t","y">> >>,
    << <<"f","o","o">>, <<"2",".","0",".","0">>, s_classes, <<"e","v","e","n","t">> >>,
    << s_schema, <<"2",".","0",".","0">>, s_classes, <<"e","v","e","n","t">> >>,
    << s_schema, <<"1",".","0",".","0">>, <<"w","r","o","n","g","t","y","p","e">>, <<"e","v","e","n","t">> >>,
    << s_schema, <<"1",".","0",".","0">>, s_classes, <<>> >>,
    << s_schema, <<"1",".","0",".","0">> >>,
    << <<"1",".","0",".","0">>, s_classes, <<"e","v","e","n","t">> >>,
    << s_schema, <<"1",".","0",".","0">>, s_objects, <<"w","i","n">>, <<"w","i","n","_","s","e","r","v","i","c","e">> >>,
    << s_schema, <<"1",".","0",".","0","-","R","C">>, s_classes, <<"p","i","n","g">> >>,
    << s_schema, <<"1",".","0",".","0","-","r","c">>, s_objects, <<"e","m","p","t","y">> >> }

PathInputs == WellFormedPaths \cup OtherPaths

\* Other heads of a request URI than https://schema.ocsf.io: no scheme and a
\* port, upper case, and none (the path alone).
OtherPrefixes ==
  { <<"/","/","s","c","h","e","m","a",".","o","c","s","f",".","i","o",":","4","4","3">>,
    <<"H","T","T","P","S",":","/","/","S","C","H","E","M","A",".","O","C","S","F",".","I","O">>,
    <<>> }

PrefixedPaths ==
  { << s_schema, <<"1",".","0",".","0">>, s_classes, <<"e","v","e","n","t">> >>,
    << s_schema, <<"1",".","0",".","0">>, s_objects, <<"u","s","e","r">> >>,
    << <<"f","o","o">>, <<"1",".","0",".","0">>, s_classes, <<"e","v","e","n","t">> >>,
    << s_schema, <<"2",".","0",".","0">>, s_classes, <<"e","v","e","n","t">> >> }

\* The request URIs: every path and profile list under the usual head, some
\* under the other heads.
UriInputs ==
  { [prefix |-> OCSF_SCHEMA_PREFIX, segments |-> s, profiles |-> p] :
      s \in PathInputs, p \in ProfileLists }
  \cup { [prefix |-> h, segments |-> s, profiles |-> p] :
           h \in OtherPrefixes, s \in PrefixedPaths, p \in {<<>>, << <<"W","e","b">> >>} }

\* The URI <prefix>/<segments>[?profiles=<profiles>] as written.
uri_of(prefix, segments, profiles) ==
  prefix \o <<"/">> \o join(<<"/">>, segments)
    \o (IF profiles = <<>> THEN <<>> ELSE s_profiles_query \o join(<<",">>, profiles))

UidInputs == {1, 2, 3, 9}

\* The number of threads that call lookup_class_name_from_uid on one instance.
MaxThreads == 2

Threads == 1..MaxThreads

\* ------------------------------------------------------------------------
\* State

VARIABLES
  schema,              \* self.schema: the catalog
  version,             \* self.version
  class_name_uid_map,  \* self.class_name_uid_map
  scans,               \* how often the loop of lines 39-40 has run over the classes
  pc,                  \* "idle", "while" and "for" inside _embed_objects, "done"
  call,                \* the call in progress or just returned
  result,              \* what the call returned or raised
  data,                \* _embed_objects: the document being completed
  profiles,            \* _embed_objects: the profiles of the document's $id
  objects_seen,        \* _embed_objects: objects_seen
  objects_added,       \* _embed_objects: objects_added
  objects_to_add,      \* _embed_objects: what is left of the for loop's set
  compiled,            \* how often this embedding compiled each object name
  threads,             \* the lookup_class_name_from_uid calls of concurrent threads
  constructed          \* the catalog __init__ was given, as it was then; no method reads it

vars == << schema, version, class_name_uid_map, scans, pc, call, result, data, profiles,
           objects_seen, objects_added, objects_to_add, compiled, threads, constructed >>

instance == << schema, version, class_name_uid_map, scans, constructed >>

embedding == << data, profiles, objects_seen, objects_added, objects_to_add, compiled >>

\* self, as far as the compiling methods read it: the catalog and the version.
self == [schema |-> schema, version |-> version]

NoCall ==
  [ op |-> "none", embedded |-> FALSE, name |-> <<>>, profiles |-> <<>>,
    uri |-> <<>>, segments |-> <<>>, uid |-> 0 ]

NoResult == [ok |-> FALSE, exception |-> "none", message |-> "none", arg |-> <<>>]

\* A thread that is in no call: at is its position in
\* lookup_class_name_from_uid, todo what the iterator of line 39 has left.
NoThread == [at |-> "idle", class_uid |-> 0, todo |-> <<>>, result |-> NoResult]

NotEmbedding ==
  /\ data = EmptyDict
  /\ profiles = <<>>
  /\ objects_seen = {}
  /\ objects_added = {}
  /\ objects_to_add = {}
  /\ compiled = EmptyDict

\* OcsfJsonSchema.__init__
Init ==
  /\ schema \in Catalogs
  /\ version = schema.version
  /\ class_name_uid_map = EmptyDict
  /\ scans = 0
  /\ pc = "idle"
  /\ call = NoCall
  /\ result = NoResult
  /\ NotEmbedding
  /\ threads = [t \in Threads |-> NoThread]
  /\ constructed = schema

\* A method of OcsfJsonSchema returns or raises r.
Returns(c, r) ==
  /\ pc = "idle"
  /\ call' = c
  /\ result' = r
  /\ pc' = "done"
  /\ UNCHANGED << instance, embedding, threads >>

GetClassSchema(class_name, profile_list) ==
  Returns([NoCall EXCEPT !.op = "get_class_schema", !.name = class_name,
                         !.profiles = profile_list],
          get_class_schema(self, class_name, profile_list))

GetObjectSchema(object_name, profile_list) ==
  Returns([NoCall EXCEPT !.op = "get_object_schema", !.name = object_name,
                         !.profiles = profile_list],
          get_object_schema(self, object_name, profile_list))

\* get_schema_from_uri were it to compare the versions without regard to
\* case by lower-casing self.version in place: the instance keeps the lowered
\* version for every later call.
GetSchemaFromUri_lowering(prefix, segments, profile_list) ==
  /\ pc = "idle"
  /\ call' = [NoCall EXCEPT !.op = "get_schema_from_uri", !.segments = segments,
                            !.profiles = profile_list,
                            !.uri = uri_of(prefix, segments, profile_list)]
  /\ version' = lower(version)
  /\ result' = get_schema_from_uri([schema |-> schema, version |-> lower(version)],
                                   uri_of(prefix, segments, profile_list))
  /\ pc' = "done"
  /\ UNCHANGED << schema, class_name_uid_map, scans, constructed, embedding, threads >>

GetSchemaFromUri(prefix, segments, profile_list) ==
  Returns([NoCall EXCEPT !.op = "get_schema_from_uri", !.segments = segments,
                         !.profiles = profile_list,
                         !.uri = uri_of(prefix, segments, profile_list)],
          get_schema_from_uri(self, uri_of(prefix, segments, profile_list)))

\* The loop of lines 38-40: the classes in dict order; a class without name
\* or uid raises KeyError (the right-hand side cls['name'] is evaluated
\* first) and leaves the map as filled so far.
RECURSIVE populate(_, _, _)
populate(map, classes, order) ==
  IF order = <<>> THEN [map |-> map, raised |-> FALSE, key |-> "none"]
  ELSE LET cls == classes[Head(order)]
       IN  IF "name" \notin DOMAIN cls THEN [map |-> map, raised |-> TRUE, key |-> "name"]
           ELSE IF "uid" \notin DOMAIN cls THEN [map |-> map, raised |-> TRUE, key |-> "uid"]
           ELSE populate(dict_set(map, cls["uid"], cls["name"]), classes, Tail(order))

\* Line 38: len(self.class_name_uid_map) == 0
index_empty(map) == DOMAIN map = {}

LookupClassNameFromUid(class_uid) ==
  LET filled == IF index_empty(class_name_uid_map)
                THEN populate(class_name_uid_map, schema.classes, schema.class_order)
                ELSE [map |-> class_name_uid_map, raised |-> FALSE, key |-> "none"]
  IN  /\ pc = "idle"
      /\ index_empty(class_name_uid_map) => scans < MaxScans
      /\ call' = [NoCall EXCEPT !.op = "lookup_class_name_from_uid", !.uid = class_uid]
      /\ class_name_uid_map' = filled.map
      /\ scans' = IF index_empty(class_name_uid_map) THEN scans + 1 ELSE scans
      /\ result' = IF filled.raised THEN Raise("KeyError", filled.key, <<>>)
                   ELSE IF class_uid \in DOMAIN filled.map THEN Ok(filled.map[class_uid])
                   ELSE Raise("ValueError", MSG_UID, <<>>)
      /\ pc' = "done"
      /\ UNCHANGED << schema, version, constructed, embedding, threads >>

\* _embed_objects(r) up to its while loop (lines 37-48), r being what the
\* method of OcsfJsonSchema returned or raised.
EmbedObjects(c, r) ==
  /\ call' = [c EXCEPT !.embedded = TRUE]
  /\ UNCHANGED << instance, threads >>
  /\ IF ~r.ok
     THEN /\ result' = r
          /\ pc' = "done"
          /\ UNCHANGED embedding
     ELSE \E rewritten \in {_rewrite_references(r.value["properties"])} :
          LET document == dict_set(r.value, "properties", rewritten.properties)
          IN  IF nothing_to_embed(rewritten.objects_seen)
              THEN /\ result' = Ok(document)
                   /\ pc' = "done"
                   /\ UNCHANGED embedding
              ELSE /\ result' = result
                   /\ pc' = "while"
                   /\ data' = dict_set(document, "$defs", EmptyDict)
                   /\ profiles' = _profiles_from_uri(document["$id"])
                   /\ objects_seen' = rewritten.objects_seen
                   /\ objects_added' = {}
                   /\ objects_to_add' = {}
                   /\ compiled' = EmptyDict

EmbeddedGetClassSchema(class_name, profile_list) ==
  /\ pc = "idle"
  /\ \E r \in {get_class_schema(self, class_name, profile_list)} :
       EmbedObjects([NoCall EXCEPT !.op = "get_class_schema", !.name = class_name,
                                   !.profiles = profile_list], r)

EmbeddedGetObjectSchema(object_name, profile_list) ==
  /\ pc = "idle"
  /\ \E r \in {get_object_schema(self, object_name, profile_list)} :
       EmbedObjects([NoCall EXCEPT !.op = "get_object_schema", !.name = object_name,
                                   !.profiles = profile_list], r)

EmbeddedGetSchemaFromUri(prefix, segments, profile_list) ==
  /\ pc = "idle"
  /\ \E r \in {get_schema_from_uri(self, uri_of(prefix, segments, profile_list))} :
       EmbedObjects([NoCall EXCEPT !.op = "get_schema_from_uri", !.segments = segments,
                                   !.profiles = profile_list,
                                   !.uri = uri_of(prefix, segments, profile_list)], r)

\* The test of the while loop (lines 51-52), and the return of line 68.
WhileTest ==
  /\ pc = "while"
  /\ UNCHANGED << instance, call, data, profiles, objects_seen, objects_added, compiled, threads >>
  /\ IF objects_left(objects_seen, objects_added) # {}
     THEN /\ objects_to_add' = objects_left(objects_seen, objects_added)
          /\ pc' = "for"
          /\ result' = result
     ELSE /\ objects_to_add' = objects_to_add
          /\ pc' = "done"
          /\ result' = Ok(data)

\* The for body were obj the catalog's own entry and not a new document:
\* deleting its $id and rewriting its references would change the catalog.
ForBody_aliased(obj_name) ==
  /\ pc = "for"
  /\ obj_name \in objects_to_add
  /\ dict_get(compiled, obj_name, 0) < MaxCompiles
  /\ compiled' = dict_set(compiled, obj_name, dict_get(compiled, obj_name, 0) + 1)
  /\ UNCHANGED << version, class_name_uid_map, scans, constructed, call, profiles, threads >>
  /\ \E obj \in {get_object_schema(self, obj_name, profiles)} :
       IF ~obj.ok
       THEN /\ result' = obj
            /\ pc' = "done"
            /\ UNCHANGED << schema, data, objects_seen, objects_added, objects_to_add >>
       ELSE /\ data' = dict_set(data, "$defs",
                         dict_set(data["$defs"], generate_object_name_slug(obj_name),
                                  embedded_object(obj.value)))
            /\ objects_seen' = seen_after(objects_seen, obj.value)
            /\ objects_added' = added_after(objects_added, obj_name)
            /\ objects_to_add' = objects_to_add \ {obj_name}
            /\ pc' = IF objects_to_add \ {obj_name} = {} THEN "while" ELSE "for"
            /\ result' = result
            /\ schema' = [schema EXCEPT !.objects[obj_name] = embedded_object(obj.value)]

\* One round of the for loop (lines 53-66); a set is iterated in any order.
ForBody(obj_name) ==
  /\ pc = "for"
  /\ obj_name \in objects_to_add
  /\ dict_get(compiled, obj_name, 0) < MaxCompiles
  /\ compiled' = dict_set(compiled, obj_name, dict_get(compiled, obj_name, 0) + 1)
  /\ UNCHANGED << instance, call, profiles, threads >>
  /\ \E obj \in {get_object_schema(self, obj_name, profiles)} :
       IF ~obj.ok
       THEN /\ result' = obj
            /\ pc' = "done"
            /\ UNCHANGED << data, objects_seen, objects_added, objects_to_add >>
       ELSE /\ data' = dict_set(data, "$defs",
                         dict_set(data["$defs"], generate_object_name_slug(obj_name),
                                  embedded_object(obj.value)))
            /\ objects_seen' = seen_after(objects_seen, obj.value)
            /\ objects_added' = added_after(objects_added, obj_name)
            /\ objects_to_add' = objects_to_add \ {obj_name}
            /\ pc' = IF objects_to_add \ {obj_name} = {} THEN "while" ELSE "for"
            /\ result' = result

\* The caller takes the result; the locals of the call are gone.
Return ==
  /\ pc = "done"
  /\ pc' = "idle"
  /\ call' = NoCall
  /\ result' = NoResult
  /\ data' = EmptyDict
  /\ profiles' = <<>>
  /\ objects_seen' = {}
  /\ objects_added' = {}
  /\ objects_to_add' = {}
  /\ compiled' = EmptyDict
  /\ UNCHANGED << instance, threads >>

Next ==
  \/ \E n \in ClassNameInputs, p \in ProfileLists : GetClassSchema(n, p)
  \/ \E n \in ObjectNameInputs, p \in ProfileLists : GetObjectSchema(n, p)
  \/ \E u \in UriInputs : GetSchemaFromUri(u.prefix, u.segments, u.profiles)
  \/ \E u \in UidInputs : LookupClassNameFromUid(u)
  \/ \E n \in ClassNameInputs, p \in ProfileLists : EmbeddedGetClassSchema(n, p)
  \/ \E n \in ObjectNameInputs, p \in ProfileLists : EmbeddedGetObjectSchema(n, p)
  \/ \E u \in UriInputs : EmbeddedGetSchemaFromUri(u.prefix, u.segments, u.profiles)
  \/ WhileTest
  \/ \E o \in objects_to_add : ForBody(o)
  \/ Return

Spec == Init /\ [][Next]_vars

\* The interpreter runs a loop it has entered to its end.
FairSpec == Spec /\ WF_vars(WhileTest) /\ WF_vars(\E o \in objects_to_add : ForBody(o))

\* ------------------------------------------------------------------------
\* lookup_class_name_from_uid called by threads that share one instance: the
\* interpreter may switch threads between any two statements of lines 38-45.

sequential == << pc, call, result, embedding >>

\* A thread calls lookup_class_name_from_uid(class_uid).
ThreadCall(t, class_uid) ==
  /\ threads[t].at = "idle"
  /\ threads' = [threads EXCEPT ![t] = [NoThread EXCEPT !.at = "test", !.class_uid = class_uid]]
  /\ UNCHANGED << instance, sequential >>

\* Line 38: the test of the index, and line 39 taking the iterator.
ThreadTest(t) ==
  /\ threads[t].at = "test"
  /\ IF index_empty(class_name_uid_map)
     THEN /\ threads' = [threads EXCEPT ![t].at = "loop", ![t].todo = schema.class_order]
          /\ scans' = IF scans < MaxScans THEN scans + 1 ELSE scans
     ELSE /\ threads' = [threads EXCEPT ![t].at = "find"]
          /\ scans' = scans
  /\ UNCHANGED << schema, version, class_name_uid_map, constructed, sequential >>

\* Lines 39-40: one round of the loop, or its end.
ThreadFill(t) ==
  /\ threads[t].at = "loop"
  /\ IF threads[t].todo = <<>>
     THEN /\ threads' = [threads EXCEPT ![t].at = "find"]
          /\ UNCHANGED class_name_uid_map
     ELSE LET cls == schema.classes[Head(threads[t].todo)]
          IN  IF "name" \notin DOMAIN cls \/ "uid" \notin DOMAIN cls
              THEN /\ threads' = [threads EXCEPT
                                    ![t].at = "done",
                                    ![t].todo = <<>>,
                                    ![t].result = Raise("KeyError",
                                                        IF "name" \notin DOMAIN cls
                                                        THEN "name" ELSE "uid", <<>>)]
                   /\ UNCHANGED class_name_uid_map
              ELSE /\ class_name_uid_map' = dict_set(class_name_uid_map, cls["uid"], cls["name"])
                   /\ threads' = [threads EXCEPT ![t].todo = Tail(threads[t].todo)]
  /\ UNCHANGED << schema, version, scans, constructed, sequential >>

\* Lines 42-45: the answer from the index as it is now.
ThreadFind(t) ==
  /\ threads[t].at = "find"
  /\ threads' = [threads EXCEPT
                   ![t].at = "done",
                   ![t].result = IF threads[t].class_uid \in DOMAIN class_name_uid_map
                                 THEN Ok(class_name_uid_map[threads[t].class_uid])
                                 ELSE Raise("ValueError", MSG_UID, <<>>)]
  /\ UNCHANGED << instance, sequential >>

\* The caller takes the result.
ThreadReturn(t) ==
  /\ threads[t].at = "done"
  /\ threads' = [threads EXCEPT ![t] = NoThread]
  /\ UNCHANGED << instance, sequential >>

ThreadNext ==
  \/ \E t \in Threads, u \in UidInputs : ThreadCall(t, u)
  \/ \E t \in Threads : ThreadTest(t)
  \/ \E t \in Threads : ThreadFill(t)
  \/ \E t \in Threads : ThreadFind(t)
  \/ \E t \in Threads : ThreadReturn(t)

ThreadSpec == Init /\ [][ThreadNext]_vars

\* ------------------------------------------------------------------------
\* Properties

\* A plain (not embedded) call has returned or raised.
PlainDone == pc = "done" /\ ~call.embedded

\* An embedded call has returned or raised.
EmbeddedDone == pc = "done" /\ call.embedded

\* The catalog entries of the kind a call names: the classes or the objects.
entries_of(op) == IF op = "get_class_schema" THEN schema.classes ELSE schema.objects

\* What the plain method a call names returns for a name and a profile list.
plain_schema(op, name, profile_list) ==
  IF op = "get_class_schema"
  THEN get_class_schema(self, name, profile_list)
  ELSE get_object_schema(self, name, profile_list)

\* The method a well-formed request path names.
op_of_path(segments) ==
  IF segments[3] = s_classes THEN "get_class_schema" ELSE "get_object_schema"

\* A request path /schema/<bound version>/<kind>/<name> whose name is a
\* catalog entry of that kind.
names_catalog_entry(segments) ==
  /\ Len(segments) = 4
  /\ segments[1] = s_schema
  /\ segments[2] = version
  /\ segments[3] \in {s_classes, s_objects}
  /\ segments[4] \in DOMAIN entries_of(op_of_path(segments))

\* C1: for every URI /schema/{version}/{classes|objects}/{name}[?profiles=...]
\* of the bound version that names a catalog entry, get_schema_from_uri
\* returns what get_class_schema / get_object_schema returns when called with
\* the profile list exactly as the URI writes it.
UriEqualsDirectCall ==
  (PlainDone /\ call.op = "get_schema_from_uri" /\ names_catalog_entry(call.segments))
    => result = plain_schema(op_of_path(call.segments), call.segments[4], call.profiles)

\* The profile part of an $id as the specification describes it: each
\* requested profile once, lowercased and sorted; nothing for an empty list.
profile_part(profile_list) ==
  IF profile_list = <<>> THEN <<>>
  ELSE s_profiles_query \o join(<<",">>, sorted({lower(p) : p \in Range(profile_list)}))

\* The $id of the entry a plain call names, without its profile part.
entry_id(op, name) ==
  OCSF_SCHEMA_PREFIX \o <<"/">> \o s_schema \o <<"/">> \o version \o <<"/">>
    \o (IF op = "get_class_schema" THEN s_classes ELSE s_objects) \o <<"/">> \o lower(name)

\* C2: the $id get_class_schema / get_object_schema puts out ends with each
\* requested profile exactly once, lowercased and sorted, and has no profile
\* part when the list is empty.
IdProfilesNormalized ==
  (PlainDone /\ call.op \in {"get_class_schema", "get_object_schema"} /\ result.ok)
    => result.value["$id"] = entry_id(call.op, call.name) \o profile_part(call.profiles)

\* The attributes of the entry a plain call names.
attributes_of(op, name) == dict_get(entries_of(op)[lower(name)], "attributes", EmptyDict)

\* The attributes that declare no profile, a null profile, or one of selected.
passing(attributes, selected) ==
  {n \in DOMAIN attributes :
     \/ "profile" \notin DOMAIN attributes[n]
     \/ attributes[n]["profile"] = NoneStr
     \/ attributes[n]["profile"] \in selected}

\* C3 as stated: the properties get_class_schema / get_object_schema puts out
\* are exactly the attributes that declare no profile, a null profile, or a
\* profile that is a member of the requested profile list.
FilterByRequestedList ==
  (PlainDone /\ call.op \in {"get_class_schema", "get_object_schema"} /\ result.ok)
    => DOMAIN result.value["properties"]
         = passing(attributes_of(call.op, call.name), Range(call.profiles))

\* C3 amended: the properties are exactly the attributes that declare no
\* profile, a null profile, or a profile that is the lower case form of a
\* member of the requested profile list.
FilterByLoweredList ==
  (PlainDone /\ call.op \in {"get_class_schema", "get_object_schema"} /\ result.ok)
    => DOMAIN result.value["properties"]
         = passing(attributes_of(call.op, call.name), {lower(p) : p \in Range(call.profiles)})

\* The class event was compiled for ["Web"]: src, of profile "web", is among
\* its properties though "web" is not in the list as requested.
FilterByLoweredListWitness ==
  /\ PlainDone
  /\ call.op = "get_class_schema"
  /\ call.name = <<"e","v","e","n","t">>
  /\ call.profiles = << <<"W","e","b">> >>
  /\ result.ok
  /\ <<"s","r","c">> \in DOMAIN result.value["properties"]
  /\ <<"d","e","v">> \notin DOMAIN result.value["properties"]

\* The $ref values of a properties dict: those of the properties, and those
\* of their items.
refs_in(properties) ==
  {properties[n]["$ref"] : n \in {m \in DOMAIN properties : "$ref" \in DOMAIN properties[m]}}
  \cup
  {properties[n]["items"]["$ref"] :
     n \in {m \in DOMAIN properties :
              "items" \in DOMAIN properties[m] /\ "$ref" \in DOMAIN properties[m]["items"]}}

\* The definitions of a document: its $defs, none when it has no such key.
defs_of(document) == dict_get(document, "$defs", EmptyDict)

\* A $ref of the form #/$defs/K with K a key of defs.
resolves_in(ref, defs) ==
  /\ startswith(ref, s_defs_prefix)
  /\ SubSeq(ref, Len(s_defs_prefix) + 1, Len(ref)) \in DOMAIN defs

\* C4: a document the embedded methods return is closed: every $ref of its
\* properties and of the properties of every definition under $defs, direct
\* or inside items, is #/$defs/K with K a key of the document's own $defs,
\* and no definition under $defs has an $id.
EmbeddedDocumentClosed ==
  (EmbeddedDone /\ result.ok)
    => /\ \A ref \in refs_in(result.value["properties"]) :
            resolves_in(ref, defs_of(result.value))
       /\ \A k \in DOMAIN defs_of(result.value) :
            /\ "$id" \notin DOMAIN defs_of(result.value)[k]
            /\ \A ref \in refs_in(defs_of(result.value)[k]["properties"]) :
                 resolves_in(ref, defs_of(result.value))

\* The class event was embedded: user and org, which refer to each other,
\* are both among its definitions.
EmbeddedDocumentClosedWitness ==
  /\ EmbeddedDone
  /\ call.op = "get_class_schema"
  /\ call.name = <<"e","v","e","n","t">>
  /\ result.ok
  /\ {<<"u","s","e","r">>, <<"o","r","g">>} \subseteq DOMAIN defs_of(result.value)
  /\ <<"#","/","$","d","e","f","s","/","o","r","g">> \in refs_in(defs_of(result.value)[<<"u","s","e","r">>]["properties"])

\* The objects an entry refers to under the profiles selected: the
\* object_type of its object_t attributes that pass the filter and name
\* one, array-valued or not.
objects_referred(entry, selected) ==
  {entry["attributes"][n]["object_type"] :
     n \in {m \in passing(entry["attributes"], selected) :
              /\ dict_get(entry["attributes"][m], "type", None) = "object_t"
              /\ dict_get(entry["attributes"][m], "object_type", NoneStr) # NoneStr}}

\* The objects reachable from the set found by object references.
RECURSIVE reachable(_, _)
reachable(found, selected) ==
  LET more == found \cup UNION {objects_referred(schema.objects[o], selected) :
                                  o \in found \cap DOMAIN schema.objects}
  IN  IF more = found THEN found ELSE reachable(more, selected)

\* C5: the keys of $defs of an embedded class or object schema are exactly
\* the slugs of the objects reachable from the root entry by the object
\* references of the attributes that pass the profile filter, array-valued
\* attributes included.
DefsAreReachableObjects ==
  (EmbeddedDone /\ call.op \in {"get_class_schema", "get_object_schema"} /\ result.ok)
    => DOMAIN defs_of(result.value)
         = {generate_object_name_slug(o) :
              o \in reachable(objects_referred(entries_of(call.op)[lower(call.name)],
                                               {lower(p) : p \in Range(call.profiles)}),
                              {lower(p) : p \in Range(call.profiles)})}

\* C6: during one embedding every object is compiled, and so added to $defs,
\* at most once, and the embedding loop, once entered, comes to its end.
EmbeddingTerminates ==
  /\ [](\A o \in DOMAIN compiled : compiled[o] <= 1)
  /\ ((pc \in {"while", "for"}) ~> (pc = "done"))

\* An embedding that met the cycle of user and org has returned, each of
\* the two compiled once.
EmbeddingTerminatesWitness ==
  /\ EmbeddedDone
  /\ result.ok
  /\ {<<"u","s","e","r">>, <<"o","r","g">>} \subseteq DOMAIN compiled
  /\ compiled[<<"u","s","e","r">>] = 1
  /\ compiled[<<"o","r","g">>] = 1
  /\ objects_left(objects_seen, objects_added) = {}

\* C7: every definition under $defs of an embedded document has exactly the
\* properties get_object_schema gives that object for the profile list the
\* caller gave for the root.
EmbeddedDefsUseRootProfiles ==
  (EmbeddedDone /\ result.ok)
    => \A o \in objects_added :
         /\ generate_object_name_slug(o) \in DOMAIN defs_of(result.value)
         /\ DOMAIN defs_of(result.value)[generate_object_name_slug(o)]["properties"]
              = DOMAIN get_object_schema(self, o, call.profiles).value["properties"]

\* The class event was embedded for ["web"]: the definition of user has
\* email, an attribute of profile web.
EmbeddedDefsUseRootProfilesWitness ==
  /\ EmbeddedDone
  /\ call.name = <<"e","v","e","n","t">>
  /\ call.profiles = << <<"w","e","b">> >>
  /\ result.ok
  /\ <<"u","s","e","r">> \in objects_added
  /\ <<"e","m","a","i","l">> \in DOMAIN defs_of(result.value)[<<"u","s","e","r">>]["properties"]

\* C8: when the compiled document of a class or object has no $ref, in a
\* property or in the items of a property, the embedded method returns that
\* document as the plain method does, without a $defs key.
NoRefsUnchanged ==
  (EmbeddedDone /\ call.op \in {"get_class_schema", "get_object_schema"}
     /\ plain_schema(call.op, call.name, call.profiles).ok
     /\ refs_in(plain_schema(call.op, call.name, call.profiles).value["properties"]) = {})
    => /\ result = plain_schema(call.op, call.name, call.profiles)
       /\ "$defs" \notin DOMAIN result.value

\* The embedded schema of the object group, which refers to no object, was
\* returned.
NoRefsUnchangedWitness ==
  /\ EmbeddedDone
  /\ call.op = "get_object_schema"
  /\ call.name = <<"g","r","o","u","p">>
  /\ result.ok
  /\ refs_in(result.value["properties"]) = {}
  /\ <<"g","i","d">> \in DOMAIN result.value["properties"]

\* C9: get_schema_from_uri raises the malformed-URI error for a path of
\* fewer than four segments and for a path whose first segment is not the
\* literal "schema".
UriNeedsSchemaMarker ==
  (PlainDone /\ call.op = "get_schema_from_uri"
     /\ (Len(call.segments) < 4 \/ call.segments[1] # s_schema))
    => ~result.ok /\ result.message = MSG_FORMAT

\* C10: a URI whose name has further "/"-separated segments is accepted:
\* what follows the kind segment is the entry name, and get_schema_from_uri
\* returns the schema of the catalog entry of that name.
NamespacedNameAccepted ==
  (PlainDone /\ call.op = "get_schema_from_uri"
     /\ Len(call.segments) > 4
     /\ call.segments[1] = s_schema
     /\ call.segments[2] = version
     /\ call.segments[3] \in {s_classes, s_objects}
     /\ join(<<"/">>, slice_from(call.segments, 3)) \in DOMAIN entries_of(op_of_path(call.segments)))
    => /\ result.ok
       /\ result.value["title"]
            = entries_of(op_of_path(call.segments))[join(<<"/">>, slice_from(call.segments, 3))]["caption"]

\* A plain get_class_schema / get_object_schema call for a catalog entry has
\* returned or raised.
PlainEntryDone ==
  /\ PlainDone
  /\ call.op \in {"get_class_schema", "get_object_schema"}
  /\ lower(call.name) \in DOMAIN entries_of(call.op)

\* The catalog entry a plain call names.
entry_of(op, name) == entries_of(op)[lower(name)]

\* C11: for a URI of four segments, get_schema_from_uri fails with the
\* version-mismatch error if and only if the version segment of the URI
\* differs from the version the instance is bound to; a URI that carries the
\* bound version string itself never fails so, whatever that string is.
VersionMismatchIffDiffers ==
  (PlainDone /\ call.op = "get_schema_from_uri"
     /\ Len(call.segments) = 4 /\ \A i \in 1..4 : call.segments[i] # <<>>)
    => ((~result.ok /\ result.message = MSG_VERSION) <=> (call.segments[2] # version))

\* The constraints mapping of an entry, empty when it has none.
constraints_of(entry) == dict_get(entry, "constraints", EmptyDict)

\* C12: compiling an entry whose constraints mapping has a key other than
\* at_least_one and just_one fails with the unsupported-constraint error,
\* also when at_least_one or just_one stands next to the unknown key.
UnknownConstraintFails ==
  (PlainEntryDone
     /\ DOMAIN constraints_of(entry_of(call.op, call.name)) \ {"at_least_one", "just_one"} # {})
    => (~result.ok /\ result.exception = "NotImplementedError")

\* The key of a document is the list of {required: [f]} clauses for the
\* fields f, in their order, and is absent when there are no fields.
clauses_for(document, key, fields) ==
  IF fields = <<>> THEN key \notin DOMAIN document
  ELSE /\ key \in DOMAIN document
       /\ Len(document[key]) = Len(fields)
       /\ \A i \in 1..Len(fields) : document[key][i] = [required |-> <<fields[i]>>]

\* C13: a compiled entry has anyOf equal to the list of {required: [f]}
\* clauses for the fields f of at_least_one, in the given order, and oneOf
\* likewise for just_one; both when both kinds are present, and neither
\* when the entry has no constraints.
ConstraintClauses ==
  (PlainEntryDone /\ result.ok)
    => /\ clauses_for(result.value, "anyOf",
                      dict_get(constraints_of(entry_of(call.op, call.name)), "at_least_one", <<>>))
       /\ clauses_for(result.value, "oneOf",
                      dict_get(constraints_of(entry_of(call.op, call.name)), "just_one", <<>>))

\* The object both, which has both kinds of constraint, was compiled:
\* anyOf and oneOf list its fields in the order of the catalog.
ConstraintClausesWitness ==
  /\ PlainEntryDone
  /\ call.name = <<"b","o","t","h">>
  /\ result.ok
  /\ result.value["anyOf"] = << [required |-> << <<"z","i","p">> >>], [required |-> << <<"c","i","t","y">> >>] >>
  /\ result.value["oneOf"] = << [required |-> << <<"c","i","t","y">> >>], [required |-> << <<"a","r","e","a">> >>] >>

\* A lookup_class_name_from_uid call has returned or raised.
LookupDone == pc = "done" /\ call.op = "lookup_class_name_from_uid"

\* The classes of the catalog that carry the uid.
classes_with_uid(uid) ==
  {c \in DOMAIN schema.classes :
     "uid" \in DOMAIN schema.classes[c] /\ schema.classes[c]["uid"] = uid}

\* C14: in any sequence of lookup_class_name_from_uid calls on one instance
\* the loop over the classes of the catalog runs in the first call only;
\* every call with the uid of a class of the catalog returns the name of
\* that class, and every call with a uid no class carries fails with the
\* unknown-uid error.
ScanOnceThenLookup ==
  /\ scans <= 1
  /\ LookupDone =>
       /\ \A c \in classes_with_uid(call.uid) : result = Ok(schema.classes[c]["name"])
       /\ classes_with_uid(call.uid) = {} =>
            (~result.ok /\ result.exception = "ValueError" /\ result.message = MSG_UID)

\* The catalog attribute behind property a of the document of a plain call.
attribute_of(a) == attributes_of(call.op, call.name)[a]

\* The reference template of the document of a plain call.
template_of_call == ref_format_of(self, profile_query_str(call.profiles))

\* C15: an attribute of type object_t with object_type o and is_array true
\* compiles to an array fragment whose items holds the $ref to o built from
\* the reference template.
ArrayOfObjectsKeepsRef ==
  (PlainEntryDone /\ result.ok)
    => \A a \in DOMAIN result.value["properties"] :
         (/\ dict_get(attribute_of(a), "type", None) = "object_t"
          /\ dict_get(attribute_of(a), "is_array", FALSE))
           => /\ result.value["properties"][a]["type"] = "array"
              /\ "$ref" \in DOMAIN result.value["properties"][a]["items"]
              /\ result.value["properties"][a]["items"]["$ref"]
                   = format_ref(template_of_call, attribute_of(a)["object_type"])

\* The literals of an enum: its keys in insertion order, as integers for the
\* integer-kind types and as strings otherwise.
literals_of(attribute) ==
  [i \in 1..Len(attribute["enum"]) |->
     IF attribute["type"] \in {"integer_t", "long_t", "port_t", "timestamp_t"}
     THEN int(attribute["enum"][i])
     ELSE attribute["enum"][i]]

\* C16: the fragment of a (non-array) attribute that declares an enum of n
\* keys has neither const nor enum when n = 0, const equal to the single
\* literal and no enum when n = 1, and enum equal to the literals in
\* insertion order and no const when n >= 2.
EnumByNumberOfKeys ==
  (PlainEntryDone /\ result.ok)
    => \A a \in DOMAIN result.value["properties"] :
         ("enum" \in DOMAIN attribute_of(a) /\ ~dict_get(attribute_of(a), "is_array", FALSE))
           => CASE Len(attribute_of(a)["enum"]) = 0 ->
                     DOMAIN result.value["properties"][a] \cap {"const", "enum"} = {}
                [] Len(attribute_of(a)["enum"]) = 1 ->
                     /\ DOMAIN result.value["properties"][a] \cap {"const", "enum"} = {"const"}
                     /\ result.value["properties"][a]["const"] = literals_of(attribute_of(a))[1]
                [] OTHER ->
                     /\ DOMAIN result.value["properties"][a] \cap {"const", "enum"} = {"enum"}
                     /\ result.value["properties"][a]["enum"] = literals_of(attribute_of(a))

\* The types table of the catalog.
types_table == dict_get(schema, "types", EmptyDict)

\* The base type names that have a JSON primitive.
base_types == {t \in DOMAIN OCSF_SCHEMA_TYPE_MAPPING : OCSF_SCHEMA_TYPE_MAPPING[t] # None}

\* The primitive a declared type name resolves to: that of the base type, or
\* that of the base type a name of the types table stands for.
primitive_of(t) ==
  IF t \in base_types THEN OCSF_SCHEMA_TYPE_MAPPING[t]
  ELSE OCSF_SCHEMA_TYPE_MAPPING[types_table[t]["type"]]

\* The declared type names that resolve to a primitive.
resolvable == base_types \cup {t \in DOMAIN types_table : types_table[t]["type"] \in base_types}

\* The attributes of the entry of a plain call that declare no profile and
\* a type satisfying unknown.
declaring(unknown(_)) ==
  {a \in DOMAIN attributes_of(call.op, call.name) :
     /\ "profile" \notin DOMAIN attribute_of(a)
     /\ "type" \in DOMAIN attribute_of(a)
     /\ unknown(attribute_of(a)["type"])}

\* C17: an attribute whose declared type is a base type compiles with the
\* primitive of the base table; one whose type is a name of the types table
\* that stands for a base type compiles with that base type's primitive; an
\* attribute whose type is neither a base type nor in the types table makes
\* the compilation fail with the unknown-type error.
TypeResolves ==
  PlainEntryDone
    => /\ declaring(LAMBDA t : t \notin DOMAIN OCSF_SCHEMA_TYPE_MAPPING \cup DOMAIN types_table) # {}
            => (~result.ok /\ result.exception = "ValueError")
       /\ result.ok
            => \A a \in DOMAIN result.value["properties"] :
                 (/\ ~dict_get(attribute_of(a), "is_array", FALSE)
                  /\ dict_get(attribute_of(a), "type", None) \in resolvable)
                   => /\ "type" \in DOMAIN result.value["properties"][a]
                      /\ result.value["properties"][a]["type"] = primitive_of(attribute_of(a)["type"])

\* C18: compiling an attribute whose type definition in the types table sets
\* both max_len and range fails with the conflicting-constraints error; no
\* other compilation raises that error.
ConflictingConstraintsFail ==
  PlainEntryDone
    => ((~result.ok /\ result.exception = "RuntimeError")
          <=> declaring(LAMBDA t : /\ t \in DOMAIN types_table
                                   /\ {"max_len", "range"} \subseteq DOMAIN types_table[t]) # {})

\* A compiling call, plain or embedded, has returned a document.
DocumentReturned ==
  pc = "done" /\ call.op # "lookup_class_name_from_uid" /\ result.ok

\* additionalProperties of a document is true exactly when its properties
\* map is empty.
open_iff_empty(document) ==
  document["additionalProperties"] = (DOMAIN document["properties"] = {})

\* C19: in every document get_class_schema / get_object_schema returns, and
\* in every definition embedded under $defs, additionalProperties is true
\* if and only if the properties map is empty, and false otherwise.
AdditionalPropertiesIffEmpty ==
  DocumentReturned
    => /\ open_iff_empty(result.value)
       /\ \A k \in DOMAIN defs_of(result.value) : open_iff_empty(defs_of(result.value)[k])

\* The object device was embedded without the profile host: the only
\* attribute of gated, which device refers to, was filtered out, and the
\* definition of gated allows additional properties where the document of
\* device does not.
AdditionalPropertiesIffEmptyWitness ==
  /\ EmbeddedDone
  /\ call.op = "get_object_schema"
  /\ call.name = <<"d","e","v","i","c","e">>
  /\ result.ok
  /\ result.value["additionalProperties"] = FALSE
  /\ <<"g","a","t","e","d">> \in DOMAIN defs_of(result.value)
  /\ DOMAIN defs_of(result.value)[<<"g","a","t","e","d">>]["properties"] = {}
  /\ defs_of(result.value)[<<"g","a","t","e","d">>]["additionalProperties"] = TRUE

\* The attributes of the entry of a plain call that survive the profile
\* filter and whose requirement is "required".
required_of_call ==
  {a \in passing(attributes_of(call.op, call.name), {lower(p) : p \in Range(call.profiles)}) :
     dict_get(attribute_of(a), "requirement", None) = "required"}

\* C20: in every compiled document required, when present, is the sorted
\* list, without duplicates, of exactly the attributes that survived profile
\* filtering and whose requirement is "required"; every entry of it is a key
\* of properties, and the key is left out when no included attribute is
\* required.
RequiredSortedIncluded ==
  (PlainEntryDone /\ result.ok)
    => IF required_of_call = {}
       THEN "required" \notin DOMAIN result.value
       ELSE /\ "required" \in DOMAIN result.value
            /\ Range(result.value["required"]) = required_of_call
            /\ Range(result.value["required"]) \subseteq DOMAIN result.value["properties"]
            /\ \A i \in 1..Len(result.value["required"]) :
                 \A j \in 1..Len(result.value["required"]) :
                   i < j => str_lt(result.value["required"][i], result.value["required"][j])

\* The object both was compiled for the profile web: area, required and of
\* that profile, stands before zip; city, which is optional, is left out.
RequiredSortedIncludedWitness ==
  /\ PlainEntryDone
  /\ call.name = <<"b","o","t","h">>
  /\ call.profiles = << <<"w","e","b">> >>
  /\ result.ok
  /\ result.value["required"] = << <<"a","r","e","a">>, <<"z","i","p">> >>
  /\ <<"c","i","t","y">> \in DOMAIN result.value["properties"]

\* The instance as __init__ made it from the catalog it was given: schema
\* and version as they were then, whatever the calls since have done.
as_constructed == [schema |-> constructed, version |-> constructed.version]

\* C21: compilation is deterministic and independent of history: a plain
\* get_class_schema / get_object_schema call returns (or raises) what the
\* same call returns on the instance as constructed, whichever compilations,
\* embeddings and uid lookups ran before it and whatever the uid index holds.
CompilationIgnoresHistory ==
  (PlainDone /\ call.op \in {"get_class_schema", "get_object_schema"})
    => result = (IF call.op = "get_class_schema"
                 THEN get_class_schema(as_constructed, call.name, call.profiles)
                 ELSE get_object_schema(as_constructed, call.name, call.profiles))

\* The class event was compiled for ["web"] on an instance whose uid index
\* earlier lookups have built, and the document is that of the catalog the
\* instance was constructed with.
CompilationIgnoresHistoryWitness ==
  /\ PlainEntryDone
  /\ call.op = "get_class_schema"
  /\ call.name = <<"e","v","e","n","t">>
  /\ call.profiles = << <<"w","e","b">> >>
  /\ result.ok
  /\ class_name_uid_map # EmptyDict
  /\ scans = 1
  /\ constructed \in Catalogs
  /\ result = get_class_schema(as_constructed, call.name, call.profiles)

\* An embedded call that names a catalog entry has returned or raised.
EmbeddedEntryDone ==
  /\ EmbeddedDone
  /\ \/ /\ call.op \in {"get_class_schema", "get_object_schema"}
        /\ lower(call.name) \in DOMAIN entries_of(call.op)
     \/ /\ call.op = "get_schema_from_uri"
        /\ names_catalog_entry(call.segments)

\* The catalog entry an embedded call names.
root_entry ==
  IF call.op = "get_schema_from_uri"
  THEN entries_of(op_of_path(call.segments))[call.segments[4]]
  ELSE entries_of(call.op)[lower(call.name)]

\* The profiles an embedded call selects.
root_profiles == {lower(p) : p \in Range(call.profiles)}

\* The objects of the reference closure of the entry an embedded call names
\* that the catalog does not define.
undefined_in_closure ==
  reachable(objects_referred(root_entry, root_profiles), root_profiles) \ DOMAIN schema.objects

\* C22: embedding a class or object whose reference closure contains an
\* object the catalog does not define fails with the unknown-object error
\* naming such an object, for get_class_schema, get_object_schema and
\* get_schema_from_uri alike; no document is returned.
UndefinedObjectFailsEmbedding ==
  (EmbeddedEntryDone /\ undefined_in_closure # {})
    => /\ ~result.ok
       /\ result.exception = "ValueError"
       /\ result.message = MSG_OBJECT
       /\ result.arg \in undefined_in_closure

\* C23: when lookup_class_name_from_uid calls run concurrently on a fresh
\* instance, under every interleaving each call with the uid of a class of
\* the catalog returns the name of that class; none sees a partly filled
\* index and fails with the unknown-uid error for a uid that exists.
ConcurrentLookupsAnswer ==
  \A t \in Threads :
    threads[t].at = "done"
      => \A c \in classes_with_uid(threads[t].class_uid) :
           threads[t].result = Ok(schema.classes[c]["name"])

\* C24: no operation mutates the catalog: every step of every call, plain or
\* embedded, returning or failing, leaves the classes, objects, types and
\* version of the instance as they were at construction.
CatalogNeverMutated ==
  [][schema' = schema /\ version' = version]_vars

\* An embedding that rewrote references in place and filled $defs has
\* returned on an instance whose uid index was built before, and the catalog
\* is one of those the instances are constructed from.
CatalogNeverMutatedWitness ==
  /\ EmbeddedDone
  /\ result.ok
  /\ DOMAIN defs_of(result.value) # {}
  /\ class_name_uid_map # EmptyDict
  /\ schema \in Catalogs
  /\ version = schema.version

\* C25: after any sequence of lookup_class_name_from_uid calls, failed ones
\* and catalogs with classes without uid included, the uid index is either
\* empty or complete: it maps the uid of every class that carries one to the
\* name of that class.
IndexEmptyOrComplete ==
  \/ class_name_uid_map = EmptyDict
  \/ \A c \in DOMAIN schema.classes :
       "uid" \in DOMAIN schema.classes[c]
         => /\ schema.classes[c]["uid"] \in DOMAIN class_name_uid_map
            /\ class_name_uid_map[schema.classes[c]["uid"]] = schema.classes[c]["name"]

\* The fields the clauses of anyOf and oneOf of a document name.
constrained_fields(document) ==
  UNION {{document[k][i]["required"][1] : i \in 1..Len(document[k])} :
           k \in {"anyOf", "oneOf"} \cap DOMAIN document}

\* C26: in every compiled document every field named by a {required: [f]}
\* clause of anyOf or oneOf is a key of the properties of that document,
\* whatever the profile selection: a constraint never names an attribute
\* the profile filter removed.
ConstraintsNameProperties ==
  (PlainEntryDone /\ result.ok)
    => constrained_fields(result.value) \subseteq DOMAIN result.value["properties"]

\* C27: an array attribute (is_array true) whose declared type has a JSON
\* primitive in the base type table compiles to a fragment of type "array"
\* whose items declares that primitive as its type, also for the types with
\* static defaults and for attributes that declare an enum as well.
ArrayItemsDeclareType ==
  (PlainEntryDone /\ result.ok)
    => \A a \in DOMAIN result.value["properties"] :
         (/\ dict_get(attribute_of(a), "is_array", FALSE)
          /\ dict_get(attribute_of(a), "type", None) \in base_types)
           => /\ result.value["properties"][a]["type"] = "array"
              /\ "type" \in DOMAIN result.value["properties"][a]["items"]
              /\ result.value["properties"][a]["items"]["type"]
                   = OCSF_SCHEMA_TYPE_MAPPING[attribute_of(a)["type"]]

=============================================================================
